---- MODULE Spec2Model ----
(***************************************************************************)
(* find_paired_rnaseq_transcripts_by_read_alignment.py                     *)
(*                                                                         *)
(* The transcript-pairing loop of main() and add_read_coverage().  One     *)
(* step of the model is one iteration of "for line in fh".  Strings are    *)
(* sequences of code points, so that sorted(), "+" and the regular         *)
(* expressions of the script are computed and not assumed.                 *)
(***************************************************************************)
EXTENDS Integers, Sequences, FiniteSets, TLC

\* ------------------------------------------------------------------ bounds
\* number of lines read from fh
MaxLines == 3
\* largest reference position an input alignment starts or ends at
MaxPos == 3

\* ----------------------------------------------------- characters, strings
AT == 64
STAR == 42
EQUALS == 61
COLON == 58
SLASH == 47
UNDERSCORE == 95
ONE == 49
TWO == 50

\* strings of the input lines: "a", "b", "b:c", "d", "c:d", "r", "s", "u"
a_ == <<97>>
b_ == <<98>>
bc_ == <<98, COLON, 99>>
d_ == <<100>>
cd_ == <<99, COLON, 100>>
r_ == <<114>>
s_ == <<115>>
u_ == <<117>>

\* str.__le__: Python compares strings code point by code point, a proper
\* prefix sorting first (this is the order sorted() uses)
RECURSIVE StrLE(_, _)
StrLE(x, y) ==
    IF x = <<>> THEN TRUE
    ELSE IF y = <<>> THEN FALSE
    ELSE IF x[1] < y[1] THEN TRUE
    ELSE IF x[1] > y[1] THEN FALSE
    ELSE StrLE(Tail(x), Tail(y))

\* sorted([x, y])
sorted2Swapped(x, y) == <<x, y>>
sorted2(x, y) == IF StrLE(x, y) THEN <<x, y>> ELSE <<y, x>>

\* key = transcripts[0] + ":" + transcripts[1]
make_key(ref_transcript_, other_transcript_) ==
    LET transcripts == sorted2(ref_transcript_, other_transcript_)
    IN  transcripts[1] \o <<COLON>> \o transcripts[2]

\* rkey = key + ":" + ref_read_name
make_rkeyNoName(key_, ref_read_name_) == key_
make_rkey(key_, ref_read_name_) == key_ \o <<COLON>> \o ref_read_name_

\* re.match("(.+)__[12]$", s) then re.match("(.+)\/[12]$", s), else s itself
read_name(s) ==
    LET n == Len(s)
    IN  IF n >= 4 /\ s[n-2] = UNDERSCORE /\ s[n-1] = UNDERSCORE /\ s[n] \in {ONE, TWO}
        THEN SubSeq(s, 1, n - 3)
        ELSE IF n >= 3 /\ s[n-1] = SLASH /\ s[n] \in {ONE, TWO}
        THEN SubSeq(s, 1, n - 2)
        ELSE s

\* rlen: the sum of the lengths of the CIGAR operations matching (\d+)[M=XDN];
\* a CIGAR is the sequence of its <<length, operation>> pairs ("*" is <<>>)
RefOps == {"M", "=", "X", "D", "N"}
RECURSIVE cigar_rlen(_)
cigar_rlen(cigar) ==
    IF cigar = <<>> THEN 0
    ELSE (IF cigar[1][2] \in RefOps THEN cigar[1][1] ELSE 0) + cigar_rlen(Tail(cigar))

\* ------------------------------------------------------ add_read_coverage
\* sorted([x, y])[0] and sorted([x, y])[1] for integers
Min2Larger(x, y) == IF x <= y THEN y ELSE x
Min2(x, y) == IF x <= y THEN x ELSE y
Max2Second(x, y) == y
Max2(x, y) == IF x >= y THEN x ELSE y

\* interval_list.insert(i, x), i counted from 1
list_insertAfter(l, i, x) == SubSeq(l, 1, i) \o <<x>> \o SubSeq(l, i + 1, Len(l))
list_insert(l, i, x) == SubSeq(l, 1, i - 1) \o <<x>> \o SubSeq(l, i, Len(l))

\* the loop "for i in range(0, ill)" from index i on; an interval is the
\* tuple <<read_count, rstart, rend>>
RECURSIVE scan(_, _, _, _, _)
scan(interval_list, i, rs, re, insert_done) ==
    IF i > Len(interval_list)
    THEN [interval_list |-> interval_list, insert_done |-> insert_done]
    ELSE LET n_rd == interval_list[i][1]
             istart == interval_list[i][2]
             iend == interval_list[i][3]
         IN  IF re < istart
             THEN [interval_list |-> list_insert(interval_list, i, <<1, rs, re>>),
                   insert_done |-> TRUE]
             ELSE IF rs > iend
             THEN scan(interval_list, i + 1, rs, re, insert_done)
             ELSE scan([interval_list EXCEPT
                           ![i] = <<1 + n_rd, Min2(rs, istart), Max2(re, iend)>>],
                       i + 1, rs, re, TRUE)

\* the totals of the first interval alone
totalsFirst(interval_list) ==
    IF interval_list = <<>> THEN <<0, 0>>
    ELSE <<interval_list[1][1], interval_list[1][3] - interval_list[1][2] + 1>>

\* the final loop: cumulative read count and coverage of a list
RECURSIVE totals(_)
totals(interval_list) ==
    IF interval_list = <<>> THEN <<0, 0>>
    ELSE LET il == interval_list[1]
             rest == totals(Tail(interval_list))
         IN  <<il[1] + rest[1], (il[3] - il[2] + 1) + rest[2]>>

\* add_read_coverage without "if not insert_done: interval_list.append(...)"
add_read_coverageNoAppend(pdict, k, rs, re) ==
    IF k \notin DOMAIN pdict
    THEN [pdict |-> [x \in DOMAIN pdict \cup {k} |->
                        IF x = k THEN <<(<<1, rs, re>>)>> ELSE pdict[x]],
          rc |-> <<1, re - rs + 1>>]
    ELSE LET il == scan(pdict[k], 1, rs, re, FALSE).interval_list
         IN  [pdict |-> [pdict EXCEPT ![k] = il], rc |-> totals(il)]

\* add_read_coverage(pdict, key, rs, re): the dict after the call and the
\* returned (n_reads, covered_bp)
add_read_coverage(pdict, k, rs, re) ==
    IF k \notin DOMAIN pdict
    THEN [pdict |-> [x \in DOMAIN pdict \cup {k} |->
                        IF x = k THEN <<(<<1, rs, re>>)>> ELSE pdict[x]],
          rc |-> <<1, re - rs + 1>>]
    ELSE LET sc == scan(pdict[k], 1, rs, re, FALSE)
             il == IF sc.insert_done THEN sc.interval_list
                   ELSE Append(sc.interval_list, <<1, rs, re>>)
         IN  [pdict |-> [pdict EXCEPT ![k] = il], rc |-> totals(il)]

\* pairings.pop(key, None)
dict_popKeep(pdict, k) == pdict
dict_pop(pdict, k) == [x \in DOMAIN pdict \ {k} |-> pdict[x]]

\* ------------------------------------------------------------------ state
VARIABLES
    args,                   \* [min_mate_pair_count, min_bp_coverage]
    pairings,               \* dict: key -> list of <<read_count, rstart, rend>>
    selected_pairings,      \* dict used as a set of keys
    reads_used,             \* dict used as a set of rkeys
    stdout,                 \* the keys printed so far, in order
    n_read,                 \* lines consumed from fh, header lines included
    n_lines,
    single_read_pairings,
    same_read_pairings,
    n_selected_pairings,
    n_lines_ignored,
    n_reads_already_used,
    ref_read,               \* locals of the loop body; they keep their value
    ref_transcript,         \* until the next assignment
    other_transcript,
    key,
    ref_read_name,
    rstart,
    rend,
    rc,
    at,                     \* the statement that ended the last iteration
    calls                   \* history: per key, what was passed to add_read_coverage

counters == <<n_lines, single_read_pairings, same_read_pairings,
              n_selected_pairings, n_lines_ignored, n_reads_already_used>>
locals == <<ref_read, ref_transcript, other_transcript, key, ref_read_name,
            rstart, rend, rc>>
vars == <<args, pairings, selected_pairings, reads_used, stdout, n_read,
          counters, locals, at, calls>>

\* a local that was never assigned
None == <<>>

\* ---------------------------------------------------------------- actions
\* the conditions of the loop body
is_header(line) == line.qname[1] = AT
mate_unmapped(other) == other = <<STAR>>
mate_same(other) == other = <<EQUALS>>
already_selectedNever(k) == FALSE
already_selected(k) == k \in selected_pairings
read_already_used(rk) == rk \in reads_used
meets_criteriaStrict(n_reads, covered_bp) ==
    (n_reads >= args.min_mate_pair_count) /\ (covered_bp > args.min_bp_coverage)
meets_criteria(n_reads, covered_bp) ==
    (n_reads >= args.min_mate_pair_count) /\ (covered_bp >= args.min_bp_coverage)

\* history: the spans passed to add_read_coverage, kept in ascending order of
\* start (and of end, for equal starts)
RECURSIVE ascending_insert(_, _)
ascending_insert(s, sp) ==
    IF s = <<>> THEN <<sp>>
    ELSE IF sp[1] < s[1][1] \/ (sp[1] = s[1][1] /\ sp[2] <= s[1][2])
    THEN <<sp>> \o s
    ELSE <<s[1]>> \o ascending_insert(Tail(s), sp)

\* history: one more call of add_read_coverage for key k, for a line that
\* names the transcripts ref and other, from the read called name
log_call(k, ref, other, name, rs, re) ==
    LET old == IF k \in DOMAIN calls THEN calls[k]
               ELSE [n |-> 0, names |-> {}, covered |-> {}, empty_span |-> FALSE,
                     pairs |-> {}, spans |-> <<>>]
        new == [n |-> old.n + 1,
                names |-> old.names \cup {name},
                covered |-> old.covered \cup (rs .. re),
                empty_span |-> old.empty_span \/ re < rs,
                pairs |-> old.pairs \cup {<<ref, other>>},
                spans |-> ascending_insert(old.spans, <<rs, re>>)]
    IN  [x \in DOMAIN calls \cup {k} |-> IF x = k THEN new ELSE calls[x]]

\* "if line[0] == '@': continue"
SkipHeader(line) ==
    /\ n_read < MaxLines
    /\ is_header(line)
    /\ n_read' = n_read + 1
    /\ at' = "header"
    /\ UNCHANGED <<args, pairings, selected_pairings, reads_used, stdout,
                   counters, locals, calls>>

\* "if other_transcript == '*'"
SkipUnmapped(line) ==
    /\ n_read < MaxLines
    /\ ~is_header(line)
    /\ mate_unmapped(line.rnext)
    /\ n_read' = n_read + 1
    /\ n_lines' = n_lines + 1
    /\ ref_read' = line.qname
    /\ ref_transcript' = line.rname
    /\ other_transcript' = line.rnext
    /\ single_read_pairings' = single_read_pairings + 1
    /\ at' = "single"
    /\ UNCHANGED <<args, pairings, selected_pairings, reads_used, stdout,
                   same_read_pairings, n_selected_pairings, n_lines_ignored,
                   n_reads_already_used, key, ref_read_name, rstart, rend, rc,
                   calls>>

\* "elif other_transcript == '='"
SkipSame(line) ==
    /\ n_read < MaxLines
    /\ ~is_header(line)
    /\ ~mate_unmapped(line.rnext)
    /\ mate_same(line.rnext)
    /\ n_read' = n_read + 1
    /\ n_lines' = n_lines + 1
    /\ ref_read' = line.qname
    /\ ref_transcript' = line.rname
    /\ other_transcript' = line.rnext
    /\ same_read_pairings' = same_read_pairings + 1
    /\ at' = "same"
    /\ UNCHANGED <<args, pairings, selected_pairings, reads_used, stdout,
                   single_read_pairings, n_selected_pairings, n_lines_ignored,
                   n_reads_already_used, key, ref_read_name, rstart, rend, rc,
                   calls>>

IgnoreSelectedLate(line) ==
    /\ n_read < MaxLines
    /\ ~is_header(line)
    /\ ~mate_unmapped(line.rnext)
    /\ ~mate_same(line.rnext)
    /\ already_selected(make_key(line.rname, line.rnext))
    /\ n_read' = n_read + 1
    /\ n_lines' = n_lines + 1
    /\ ref_read' = line.qname
    /\ ref_transcript' = line.rname
    /\ other_transcript' = line.rnext
    /\ key' = make_key(line.rname, line.rnext)
    /\ ref_read_name' = read_name(line.qname)
    /\ rstart' = line.pos
    /\ rend' = line.pos + cigar_rlen(line.cigar) - 1
    /\ n_lines_ignored' = n_lines_ignored + 1
    /\ at' = "ignored"
    /\ UNCHANGED <<args, pairings, selected_pairings, reads_used, stdout,
                   single_read_pairings, same_read_pairings, n_selected_pairings,
                   n_reads_already_used, rc, calls>>

\* "if key in selected_pairings"
IgnoreSelected(line) ==
    /\ n_read < MaxLines
    /\ ~is_header(line)
    /\ ~mate_unmapped(line.rnext)
    /\ ~mate_same(line.rnext)
    /\ already_selected(make_key(line.rname, line.rnext))
    /\ n_read' = n_read + 1
    /\ n_lines' = n_lines + 1
    /\ ref_read' = line.qname
    /\ ref_transcript' = line.rname
    /\ other_transcript' = line.rnext
    /\ key' = make_key(line.rname, line.rnext)
    /\ n_lines_ignored' = n_lines_ignored + 1
    /\ at' = "ignored"
    /\ UNCHANGED <<args, pairings, selected_pairings, reads_used, stdout,
                   single_read_pairings, same_read_pairings, n_selected_pairings,
                   n_reads_already_used, ref_read_name, rstart, rend, rc, calls>>

\* "if rkey in reads_used"
IgnoreUsed(line) ==
    LET k == make_key(line.rname, line.rnext)
        name == read_name(line.qname)
    IN  /\ n_read < MaxLines
        /\ ~is_header(line)
        /\ ~mate_unmapped(line.rnext)
        /\ ~mate_same(line.rnext)
        /\ ~already_selected(k)
        /\ read_already_used(make_rkey(k, name))
        /\ n_read' = n_read + 1
        /\ n_lines' = n_lines + 1
        /\ ref_read' = line.qname
        /\ ref_transcript' = line.rname
        /\ other_transcript' = line.rnext
        /\ key' = k
        /\ ref_read_name' = name
        /\ rstart' = line.pos
        /\ rend' = line.pos + cigar_rlen(line.cigar) - 1
        /\ n_reads_already_used' = n_reads_already_used + 1
        /\ at' = "used"
        /\ UNCHANGED <<args, pairings, selected_pairings, reads_used, stdout,
                       single_read_pairings, same_read_pairings,
                       n_selected_pairings, n_lines_ignored, rc, calls>>

\* the line reaches add_read_coverage: what both outcomes share
Fold(line, k, name, res) ==
    /\ n_read < MaxLines
    /\ ~is_header(line)
    /\ ~mate_unmapped(line.rnext)
    /\ ~mate_same(line.rnext)
    /\ ~already_selected(k)
    /\ ~read_already_used(make_rkey(k, name))
    /\ n_read' = n_read + 1
    /\ n_lines' = n_lines + 1
    /\ ref_read' = line.qname
    /\ ref_transcript' = line.rname
    /\ other_transcript' = line.rnext
    /\ key' = k
    /\ ref_read_name' = name
    /\ rstart' = line.pos
    /\ rend' = line.pos + cigar_rlen(line.cigar) - 1
    /\ rc' = res.rc
    /\ calls' = log_call(k, line.rname, line.rnext, name, rstart', rend')
    /\ UNCHANGED <<args, single_read_pairings, same_read_pairings,
                   n_lines_ignored, n_reads_already_used>>

\* the pair now meets the selection criteria: print, flag, pop
Select(line) ==
    LET k == make_key(line.rname, line.rnext)
        name == read_name(line.qname)
        res == add_read_coverage(pairings, k, line.pos,
                                 line.pos + cigar_rlen(line.cigar) - 1)
    IN  /\ Fold(line, k, name, res)
        /\ meets_criteria(res.rc[1], res.rc[2])
        /\ stdout' = Append(stdout, k)
        /\ n_selected_pairings' = n_selected_pairings + 1
        /\ selected_pairings' = selected_pairings \cup {k}
        /\ pairings' = dict_pop(res.pdict, k)
        /\ at' = "selected"
        /\ UNCHANGED reads_used

\* it does not: remember the read
Keep(line) ==
    LET k == make_key(line.rname, line.rnext)
        name == read_name(line.qname)
        res == add_read_coverage(pairings, k, line.pos,
                                 line.pos + cigar_rlen(line.cigar) - 1)
    IN  /\ Fold(line, k, name, res)
        /\ ~meets_criteria(res.rc[1], res.rc[2])
        /\ pairings' = res.pdict
        /\ reads_used' = reads_used \cup {make_rkey(k, name)}
        /\ at' = "kept"
        /\ UNCHANGED <<stdout, n_selected_pairings, selected_pairings>>

ProcessLine(line) ==
    \/ SkipHeader(line)
    \/ SkipUnmapped(line)
    \/ SkipSame(line)
    \/ IgnoreSelected(line)
    \/ IgnoreUsed(line)
    \/ Select(line)
    \/ Keep(line)

\* the state before the first line is read, for given command-line arguments
InitArgs(mmpc, mbp) ==
    /\ args = [min_mate_pair_count |-> mmpc, min_bp_coverage |-> mbp]
    /\ pairings = <<>>
    /\ selected_pairings = {}
    /\ reads_used = {}
    /\ stdout = <<>>
    /\ n_read = 0
    /\ n_lines = 0
    /\ single_read_pairings = 0
    /\ same_read_pairings = 0
    /\ n_selected_pairings = 0
    /\ n_lines_ignored = 0
    /\ n_reads_already_used = 0
    /\ ref_read = None
    /\ ref_transcript = None
    /\ other_transcript = None
    /\ key = None
    /\ ref_read_name = None
    /\ rstart = 0
    /\ rend = 0
    /\ rc = None
    /\ at = "start"
    /\ calls = <<>>

\* ------------------------------------------------------------ input lines
\* the columns of a line that the loop reads: 1, 3, 4, 6 and 7
Line(q, rn, p, c, rx) == [qname |-> q, rname |-> rn, pos |-> p, cigar |-> c, rnext |-> rx]

\* a CIGAR string that spans len reference bases: "1S", "1M", "1M1I<len-1>N"
cigar_of(len) ==
    IF len = 0 THEN <<(<<1, "S">>)>>
    ELSE IF len = 1 THEN <<(<<1, "M">>)>>
    ELSE <<(<<1, "M">>), <<1, "I">>, <<len - 1, "N">>>>

\* lines that every input has: a header line, a line whose mate is unmapped
\* and a line whose mate is on the same transcript
CommonLines ==
    {Line(<<AT>>, None, 0, <<>>, None),
     Line(r_, a_, 1, cigar_of(1), <<STAR>>),
     Line(r_, a_, 1, cigar_of(1), <<EQUALS>>)}

\* the alignments [rs, re] with 1 <= rs <= re + 1 <= MaxPos + 1
Spans == {sp \in (1 .. MaxPos) \X (0 .. MaxPos) : sp[2] >= sp[1] - 1}

\* the read of a span: every span has a read of its own
span_read(sp) == <<97 + sp[1], 97 + sp[2]>>

\* the coverage tracker at work: one pair of transcripts, one read for every
\* span, and a second read, "u", for the spans that start at 1
CovLines ==
    {Line(span_read(sp), a_, sp[1], cigar_of(sp[2] - sp[1] + 1), b_) : sp \in Spans}
      \cup {Line(u_, a_, sp[1], cigar_of(sp[2] - sp[1] + 1), b_) :
                sp \in {x \in Spans : x[1] = 1}}
      \cup CommonLines

InitCov == \E ar \in {<<2, 3>>, <<9, 1>>} : InitArgs(ar[1], ar[2])
NextCov == \E line \in CovLines : ProcessLine(line)
SpecCov == InitCov /\ [][NextCov]_vars

\* transcript pairs in both orientations, and a mate that names the
\* transcript of the read itself; the reads "r/1", "r/2" and "s__1"
Names == {a_, b_}
PairLines ==
    {Line(q, tp[1], p, cigar_of(1), tp[2]) :
        q \in {r_ \o <<SLASH, ONE>>, r_ \o <<SLASH, TWO>>,
                s_ \o <<UNDERSCORE, UNDERSCORE, ONE>>},
        tp \in {<<a_, b_>>, <<b_, a_>>, <<a_, a_>>},
        p \in {1, MaxPos}}
      \cup CommonLines

Init == \E ar \in {<<1, 1>>, <<2, 2>>} : InitArgs(ar[1], ar[2])
Next == \E line \in PairLines : ProcessLine(line)
Spec == Init /\ [][Next]_vars

\* read names: "d", "d/1", "d__2", "d/1/2", "/1", "c:d", on the transcript
\* pairs (a, b) and (a, b:c)
DedupLines ==
    {Line(q, a_, 1, cigar_of(1), rx) :
        q \in {d_, d_ \o <<SLASH, ONE>>, d_ \o <<UNDERSCORE, UNDERSCORE, TWO>>,
                d_ \o <<SLASH, ONE, SLASH, TWO>>, <<SLASH, ONE>>, cd_},
        rx \in {b_, bc_}}
      \cup CommonLines

InitDedup == \E ar \in {<<2, 1>>, <<4, 1>>} : InitArgs(ar[1], ar[2])
NextDedup == \E line \in DedupLines : ProcessLine(line)
SpecDedup == InitDedup /\ [][NextDedup]_vars

\* ----------------------------------------------------------------- claims
\* the keys printed so far
printed == {stdout[i] : i \in 1 .. Len(stdout)}

\* the iteration that led to this state got past the '*' and '=' tests
past_mate_tests == at \in {"ignored", "used", "selected", "kept"}

\* the iteration that led to this state called add_read_coverage
folded == at \in {"selected", "kept"}

\* k is x + ":" + y for the two names in ascending order
IsCanonical(k, x, y) ==
    \E n1, n2 \in {x, y} :
        {n1, n2} = {x, y} /\ StrLE(n1, n2) /\ k = n1 \o <<COLON>> \o n2

\* C1: one-shot emission.  A step prints nothing or prints one key that was
\* not printed before, and a line whose transcript pair, in either
\* orientation, has a printed key prints nothing.
OneShotEmission ==
    [][/\ \/ stdout' = stdout
          \/ /\ Len(stdout') = Len(stdout) + 1
             /\ SubSeq(stdout', 1, Len(stdout)) = stdout
             /\ stdout'[Len(stdout')] \notin printed
       /\ (/\ at' \in {"ignored", "used", "selected", "kept"}
           /\ \/ make_key(ref_transcript', other_transcript') \in printed
              \/ make_key(other_transcript', ref_transcript') \in printed)
          => stdout' = stdout]_vars

\* C1 witness: two more lines for a printed pair were read, the second in the
\* other orientation, and the key is on stdout once.
OneShotEmissionWitness ==
    /\ at = "ignored"
    /\ stdout = <<key>>
    /\ n_lines_ignored = 2
    /\ ref_transcript = b_
    /\ other_transcript = a_

\* C2: inclusive threshold test.  A line that reaches add_read_coverage gets
\* its key printed on that very iteration, appended to the output, if and only
\* if the returned totals satisfy n_reads >= min_mate_pair_count and
\* covered_bp >= min_bp_coverage; no other iteration prints.
ThresholdInclusive ==
    [][LET meets == /\ rc'[1] >= args.min_mate_pair_count
                    /\ rc'[2] >= args.min_bp_coverage
       IN  /\ at' \in {"selected", "kept"} =>
                /\ (stdout' = Append(stdout, key')) <=> meets
                /\ (stdout' = stdout) <=> ~meets
                /\ (at' = "selected") <=> meets
           /\ at' \notin {"selected", "kept"} => stdout' = stdout]_vars

\* C2 witness: a pair was printed with both totals exactly at the thresholds.
ThresholdInclusiveWitness ==
    /\ at = "selected"
    /\ rc = <<args.min_mate_pair_count, args.min_bp_coverage>>
    /\ stdout = <<key>>

\* C3: the read count is exact.  The n_reads that add_read_coverage returns is
\* the number of calls made for that key.
ReadCountExact == folded => rc[1] = calls[key].n

\* C4: covered basepairs is the union length.  When every span folded for the
\* key has end >= start, the covered_bp that add_read_coverage returns is the
\* number of positions covered by at least one of the spans.
CoveredBpIsUnion ==
    (folded /\ ~calls[key].empty_span) => rc[2] = Cardinality(calls[key].covered)

\* C5: non-overlap invariant.  In the interval list of every live key each
\* entry ends before the next one starts.
NonOverlapping ==
    \A k \in DOMAIN pairings :
        \A i \in 1 .. Len(pairings[k]) - 1 : pairings[k][i][3] < pairings[k][i + 1][2]

\* C6: sortedness invariant.  The interval list of every live key is sorted by
\* ascending start coordinate.
SortedByStart ==
    \A k \in DOMAIN pairings :
        \A i \in 1 .. Len(pairings[k]) - 1 : pairings[k][i][2] <= pairings[k][i + 1][2]

\* C6 witness: a list of three entries after three calls, one of them an
\* empty span, whose second entry was inserted after a merge into the first
\* (it starts inside the first).
SortedByStartWitness ==
    \E k \in DOMAIN pairings :
        /\ calls[k].n = 3
        /\ calls[k].empty_span
        /\ Len(pairings[k]) = 3
        /\ pairings[k][1][1] = 2
        /\ pairings[k][2][2] <= pairings[k][1][3]

\* C7: read dedup.  A line that is folded has a stripped read name that was
\* not folded for its key before, and a line for a key that is not selected
\* whose stripped read name was not folded for that key before is folded (it
\* is not dropped as the mate of a used read).
ReadDedup ==
    [][LET seen == IF key' \in DOMAIN calls THEN calls[key'].names ELSE {}
       IN  /\ at' \in {"selected", "kept"} => ref_read_name' \notin seen
           /\ at' = "used" => ref_read_name' \in seen]_vars

\* C8: canonical key symmetry.  The key of a line is the key of the line with
\* the two transcripts swapped, it is name1:name2 with name1 <= name2, and
\* every call of add_read_coverage for a key, every live list and every
\* selected flag is under the canonical key of the transcripts of its lines.
CanonicalKey ==
    /\ past_mate_tests =>
          /\ key = make_key(other_transcript, ref_transcript)
          /\ IsCanonical(key, ref_transcript, other_transcript)
    /\ \A k \in DOMAIN calls :
          \A tp \in calls[k].pairs : IsCanonical(k, tp[1], tp[2])
    /\ DOMAIN pairings \cup selected_pairings \subseteq DOMAIN calls

\* C8 witness: a line (a, b) and a line (b, a) went into one interval list,
\* and the mate of the first read, on a line (b, a), was dropped as used.
CanonicalKeyWitness ==
    /\ at = "used"
    /\ ref_transcript = b_
    /\ other_transcript = a_
    /\ key \in DOMAIN pairings
    /\ calls[key].pairs = {<<a_, b_>>, <<b_, a_>>}
    /\ totals(pairings[key])[1] = 2

\* C9: only cross-transcript mates qualify.  A folded line has its mate on
\* another transcript than its own, and no live key and no printed key is X:X.
NoSelfPair ==
    /\ folded => ref_transcript # other_transcript
    /\ \A k \in DOMAIN pairings \cup printed :
          \A x \in Names : k # x \o <<COLON>> \o x

\* C10: selected is terminal and retired.  No key is both selected and live,
\* and a selected key stays selected.
SelectedIsTerminal ==
    /\ [](selected_pairings \cap DOMAIN pairings = {})
    /\ [][selected_pairings \subseteq selected_pairings']_vars

\* C10 witness: a key that had a live list of two reads is selected, its list
\* is gone, and a later line for it was ignored.
SelectedIsTerminalWitness ==
    /\ at = "ignored"
    /\ key \in selected_pairings
    /\ key \notin DOMAIN pairings
    /\ calls[key].n = 2

\* the span [rs, re] and the interval il overlap, by the two tests of the
\* loop: the span neither ends before the interval nor starts after it
overlaps(il, rs, re) == ~(re < il[2]) /\ ~(rs > il[3])

\* a list that is sorted by start and whose entries do not overlap
is_disjoint_list(l) == \A i \in 1 .. Len(l) - 1 : l[i][3] < l[i + 1][2]

\* the list add_read_coverage found for the key of the last line
old_list == pairings[key']

\* C11: overlap merge.  When the span of a folded line overlaps exactly one
\* interval of a sorted, non-overlapping list, the returned read count is one
\* more than before, and the list that is kept is the old one with just that
\* interval replaced by (n + 1, min(start, iStart), max(end, iEnd)).  (Stated
\* for spans and intervals of at least one base.)
OverlapMerge ==
    [][(/\ at' \in {"selected", "kept"}
        /\ key' \in DOMAIN pairings
        /\ rend' >= rstart'
        /\ \A j \in 1 .. Len(old_list) : old_list[j][3] >= old_list[j][2]
        /\ is_disjoint_list(old_list)
        /\ Cardinality({i \in 1 .. Len(old_list) :
                           overlaps(old_list[i], rstart', rend')}) = 1)
       => LET i == CHOOSE j \in 1 .. Len(old_list) :
                       overlaps(old_list[j], rstart', rend')
              merged == <<old_list[i][1] + 1, Min2(rstart', old_list[i][2]),
                          Max2(rend', old_list[i][3])>>
          IN  /\ rc'[1] = totals(old_list)[1] + 1
              /\ at' = "kept" =>
                    pairings'[key'] = [old_list EXCEPT ![i] = merged]]_vars

\* C12: disjoint accumulation.  The first call for a key returns
\* (1, end - start + 1).  A later call whose span overlaps none of the
\* intervals of the list returns totals that are exactly (1, end - start + 1)
\* greater than the totals before, and the list that is kept is the old one
\* with the one interval (1, start, end) added at its sorted position.
DisjointAccumulation ==
    [][at' \in {"selected", "kept"} =>
          LET new == <<1, rstart', rend'>>
              len == rend' - rstart' + 1
          IN  /\ key' \notin DOMAIN pairings =>
                    /\ rc' = <<1, len>>
                    /\ at' = "kept" => pairings'[key'] = <<new>>
              /\ (/\ key' \in DOMAIN pairings
                  /\ \A j \in 1 .. Len(old_list) : ~overlaps(old_list[j], rstart', rend'))
                 => /\ rc' = <<totals(old_list)[1] + 1, totals(old_list)[2] + len>>
                    /\ at' = "kept" =>
                          \E i \in 1 .. Len(old_list) + 1 :
                              /\ pairings'[key'] =
                                    SubSeq(old_list, 1, i - 1) \o <<new>>
                                        \o SubSeq(old_list, i, Len(old_list))
                              /\ i > 1 => old_list[i - 1][2] <= rstart'
                              /\ i <= Len(old_list) => rstart' <= old_list[i][2]]_vars

\* C12 witness: after [1,1] and [3,3] the span [2,2] went between them; three
\* intervals of one read each, totals (3, 3).
DisjointAccumulationWitness ==
    /\ at = "kept"
    /\ rstart = 2
    /\ rend = 2
    /\ pairings[key] = <<(<<1, 1, 1>>), <<1, 2, 2>>, <<1, 3, 3>>>>
    /\ rc = <<3, 3>>

\* the place of key k in its lifecycle, given the selected keys and the keys
\* that have an interval list
phase(sel, live, k) ==
    IF k \in sel /\ k \in live THEN "Both"
    ELSE IF k \in sel THEN "Selected"
    ELSE IF k \in live THEN "Accumulating"
    ELSE "Unseen"

\* the keys that are not Unseen before or after a step
touched == DOMAIN pairings \cup selected_pairings
              \cup DOMAIN pairings' \cup selected_pairings'

\* the totals returned by the fold of a step meet both thresholds
fold_meets ==
    rc'[1] >= args.min_mate_pair_count /\ rc'[2] >= args.min_bp_coverage

\* C13 as claimed: the only transitions are Unseen -> Accumulating ->
\* Selected; the first fold for a key leaves it Accumulating, and a key
\* becomes Selected only from Accumulating.
LifecycleThroughAccumulating ==
    [][\A k \in touched :
          LET p == phase(selected_pairings, DOMAIN pairings, k)
              q == phase(selected_pairings', DOMAIN pairings', k)
          IN  /\ <<p, q>> \in {<<"Unseen", "Accumulating">>,
                               <<"Accumulating", "Accumulating">>,
                               <<"Accumulating", "Selected">>,
                               <<"Selected", "Selected">>}
              /\ (p = "Unseen" /\ at' \in {"selected", "kept"} /\ key' = k)
                    => q = "Accumulating"]_vars

\* C13 as amended: the transitions are Unseen -> Accumulating -> Selected and
\* Unseen -> Selected.  The phase of a key changes only on a fold of a line of
\* that key; the fold leaves the key Selected if its totals meet both
\* thresholds and Accumulating if not, whether the key was Unseen or
\* Accumulating; a Selected key is never folded again.
Lifecycle ==
    [][\A k \in touched :
          LET p == phase(selected_pairings, DOMAIN pairings, k)
              q == phase(selected_pairings', DOMAIN pairings', k)
              fold_k == at' \in {"selected", "kept"} /\ key' = k
          IN  /\ <<p, q>> \in {<<"Unseen", "Accumulating">>,
                               <<"Unseen", "Selected">>,
                               <<"Accumulating", "Accumulating">>,
                               <<"Accumulating", "Selected">>,
                               <<"Selected", "Selected">>}
              /\ p # q => fold_k
              /\ fold_k => /\ p \in {"Unseen", "Accumulating"}
                           /\ q = IF fold_meets THEN "Selected" ELSE "Accumulating"]_vars

\* C13 witness: a key was selected by the first line folded for it, after
\* another key was selected.
LifecycleWitness ==
    /\ at = "selected"
    /\ calls[key].n = 1
    /\ key \in selected_pairings
    /\ key \notin DOMAIN pairings
    /\ selected_pairings # {key}


\* C14: a line discarded because its mate reference is "*" or "=", because
\* its key is selected or because its read is already counted for its key
\* prints nothing and leaves pairings, selected_pairings and reads_used as
\* they are; only n_lines and the counter of that discard grow.  The discard
\* of a selected key leaves ref_read_name, rstart and rend unassigned.
DiscardsArePure ==
    [][(n_read' # n_read /\ at' \in {"single", "same", "ignored", "used"})
         => /\ stdout' = stdout
            /\ pairings' = pairings
            /\ selected_pairings' = selected_pairings
            /\ reads_used' = reads_used
            /\ calls' = calls
            /\ counters' = <<n_lines + 1,
                             single_read_pairings + (IF at' = "single" THEN 1 ELSE 0),
                             same_read_pairings + (IF at' = "same" THEN 1 ELSE 0),
                             n_selected_pairings,
                             n_lines_ignored + (IF at' = "ignored" THEN 1 ELSE 0),
                             n_reads_already_used + (IF at' = "used" THEN 1 ELSE 0)>>
            /\ at' = "single" <=> other_transcript' = <<STAR>>
            /\ at' = "same" <=> other_transcript' = <<EQUALS>>
            /\ at' = "ignored" => /\ key' \in selected_pairings
                                  /\ UNCHANGED <<ref_read_name, rstart, rend, rc>>
            /\ at' = "used" => /\ key' \notin selected_pairings
                               /\ make_rkey(key', ref_read_name') \in reads_used]_vars

\* C14 witness: a line of a selected key was discarded, and the read name and
\* the span are still those of an earlier line.
DiscardsArePureWitness ==
    /\ at = "ignored"
    /\ key \in selected_pairings
    /\ n_lines_ignored > 0
    /\ ref_read_name # None
    /\ ref_read_name # read_name(ref_read)
    /\ stdout # <<>>


\* the dict after add_read_coverage was called for key k with the spans of s,
\* one after the other
RECURSIVE replay(_, _, _)
replay(pdict, k, s) ==
    IF s = <<>> THEN pdict
    ELSE replay(add_read_coverage(pdict, k, s[1][1], s[1][2]).pdict, k, Tail(s))

\* the interval list of key k had its spans arrived in ascending order
ascending_list(k) == replay(<<>>, k, calls[k].spans)[k]


DegenerateSpan ==
    [][(n_read' # n_read /\ at' \in {"selected", "kept"} /\ rend' = rstart' - 1)
         => /\ key' \notin DOMAIN pairings => rc' = <<1, 0>>
            /\ key' \in DOMAIN pairings
                  => /\ rc'[2] = totals(old_list)[2]
                     /\ rc'[1] > totals(old_list)[1]
            /\ rc'[2] >= 0]_vars

\* C16 witness: a span of length zero was folded into a list that covers
\* bases and already holds an interval of length zero.
DegenerateSpanWitness ==
    /\ at = "kept"
    /\ rend = rstart - 1
    /\ calls[key].n = 3
    /\ rc[2] > 0
    /\ \E i \in 1 .. Len(pairings[key]) :
          pairings[key][i][3] >= pairings[key][i][2]
    /\ Cardinality({i \in 1 .. Len(pairings[key]) :
                       pairings[key][i][3] < pairings[key][i][2]}) >= 2


\* C17 as claimed: reads_used holds exactly the key:name strings of the
\* lines that were folded into the coverage of some pair.
SeenReadsExact ==
    reads_used = UNION {{k \o <<COLON>> \o n : n \in calls[k].names} :
                           k \in DOMAIN calls}

\* C17 as amended: reads_used gains the key:name string of a line exactly
\* when the line is folded and its pair is not selected by that fold; the
\* line whose fold selects the pair is not recorded.  No entry is ever
\* removed, and every entry is the key:name string of a folded line.
SeenReads ==
    [][/\ reads_used \subseteq reads_used'
       /\ (n_read' # n_read /\ at' = "kept")
             => reads_used' = reads_used \cup {key' \o <<COLON>> \o ref_read_name'}
       /\ ~(n_read' # n_read /\ at' = "kept") => reads_used' = reads_used
       /\ reads_used' \subseteq
             UNION {{k \o <<COLON>> \o n : n \in calls'[k].names} :
                       k \in DOMAIN calls'}]_vars

\* C17 witness: the second line folded for a pair selected it; the first
\* line's entry is still in reads_used, the second line's is not there.
SeenReadsWitness ==
    /\ at = "selected"
    /\ calls[key].n = 2
    /\ Cardinality(calls[key].names) = 2
    /\ (key \o <<COLON>> \o ref_read_name) \notin reads_used
    /\ \E n \in calls[key].names : (key \o <<COLON>> \o n) \in reads_used


\* C18: for a key whose spans all cover at least one base, the totals that
\* add_read_coverage returns are never below the exact ones: n_reads is at
\* least the number of calls and covered_bp at least the number of positions
\* the spans cover.  So a key whose exact totals meet both thresholds is
\* selected.
NeverUnderCount ==
    /\ (at \in {"selected", "kept"} /\ ~calls[key].empty_span)
          => /\ rc[1] >= calls[key].n
             /\ rc[2] >= Cardinality(calls[key].covered)
    /\ \A k \in DOMAIN calls :
          (/\ ~calls[k].empty_span
           /\ calls[k].n >= args.min_mate_pair_count
           /\ Cardinality(calls[k].covered) >= args.min_bp_coverage)
             => k \in selected_pairings /\ k \notin DOMAIN pairings

\* C18 witness: the fold that made the exact totals meet the thresholds
\* selected the pair, with returned totals above the exact ones.
NeverUnderCountWitness ==
    /\ at = "selected"
    /\ ~calls[key].empty_span
    /\ calls[key].n = 3
    /\ calls[key].n >= args.min_mate_pair_count
    /\ Cardinality(calls[key].covered) = args.min_bp_coverage
    /\ rc[1] > calls[key].n
    /\ rc[2] > Cardinality(calls[key].covered)


\* C19: between lines, every key of pairings has a non-empty interval list
\* whose summed read count and summed length do not meet both thresholds,
\* and at least one entry of reads_used is for that key.
LivePairsBelowThreshold ==
    \A k \in DOMAIN pairings :
        /\ pairings[k] # <<>>
        /\ ~(/\ totals(pairings[k])[1] >= args.min_mate_pair_count
             /\ totals(pairings[k])[2] >= args.min_bp_coverage)
        /\ \E n \in calls[k].names : (k \o <<COLON>> \o n) \in reads_used
        /\ k \notin selected_pairings

\* C19 witness: a pair is kept with enough reads and one base short of the
\* coverage threshold.
LivePairsBelowThresholdWitness ==
    /\ at = "kept"
    /\ key \in DOMAIN pairings
    /\ rc = totals(pairings[key])
    /\ rc[1] >= args.min_mate_pair_count
    /\ rc[2] = args.min_bp_coverage - 1

====
